---- MODULE Spec2Model ----
(***************************************************************************)
(* Model of the transcription backend selector of audio-transa:            *)
(*   TranscriptionService        (src/transcriptionService.js)             *)
(*   PythonTranscriptionService  (src/unnamed/part_002)                    *)
(* Every callback the event loop runs (a file-system callback, a child     *)
(* process event, the continuation of an await) is one action.             *)
(* Strings are sequences of tokens, so that concatenation is \o and        *)
(* String.includes is membership of a token.  Confidence values are        *)
(* scaled by 1000.                                                         *)
(***************************************************************************)
EXTENDS Integers, Sequences, FiniteSets, TLC

VARIABLES
    useOpenAI,        \* this.useOpenAI
    preferredService, \* this.preferredService
    pythonScript,     \* pythonService.pythonScript
    tempDir,          \* pythonService.tempDir
    hfToken,          \* pythonService.hfToken
    pythonPresent,    \* environment: the python3 executable can be started
    now,              \* Date.now()
    files,            \* paths that exist in the two temp directories
    started,          \* number of transcribeAudio calls made so far
    pc,               \* position of each call of TranscriptionService.transcribeAudio
    opts,             \* options of the call
    buf,              \* audioBuffer.length of the call
    pyPath,           \* tempFilePath of the subprocess strategy
    pyPc,             \* position of PythonTranscriptionService.transcribeAudio
    errH,             \* position of the 'error' handler
    closeH,           \* position of the 'close' handler
    closeArgs,        \* code, stdout, stderr of the 'close' event of the child
    pyValue,          \* the promise of the subprocess strategy: pending, its value or its error
    oaPath,           \* tempFilePath of the remote strategy
    outcome,          \* what transcribeAudio returned or threw
    pyInvoked,        \* times the call invoked the subprocess strategy
    oaInvoked,        \* times the call invoked the remote strategy
    pySpawned,        \* spawn() returned a child process
    pyCleaned,        \* a cleanupTempFile promise of the call has resolved
    unlinkFailed,     \* an unlink of an existing temp file of the call failed
    apiSeen,          \* how the request to the remote API of the call ended
    probePc,          \* position of isAvailable
    probeResult,      \* what the promise of isAvailable resolved to
    probeSeen,        \* what the probe process did
    arg,              \* the argument of a function that is called on its own
    ret,              \* what that call returned
    received,         \* 'stop-recording' events the server got from each socket
    emitted,          \* events the server emitted to each socket, in order
    handlers,         \* processAudioForTranscription calls waiting at their await
    results,          \* the results list of a transcribeBatch call
    isRecording,      \* browser client: isRecording
    mediaRecorder,    \* browser client: mediaRecorder (0 is null)
    audioChunks,      \* browser client: audioChunks, each chunk the recorder it came from
    timerInterval,    \* browser client: timerInterval (0 is null)
    recordBtn,        \* browser client: recordBtn.disabled
    stopBtn,          \* browser client: stopBtn.disabled
    clicks,           \* browser client: clicks on the record button so far
    requests,         \* browser client: getUserMedia promises of startRecording that are pending
    recorders,        \* browser client: the state of every MediaRecorder constructed
    intervals,        \* browser client: the intervals of setInterval that are active
    timers,           \* browser client: setInterval calls so far
    sent,             \* browser client: the audio of every 'stop-recording' message sent
    tempDirExists     \* AudioService: the directory this.tempDir exists

vars == <<useOpenAI, preferredService, pythonScript, tempDir, hfToken,
          received, emitted, handlers, pythonPresent, now, files, started, pc,
          opts, buf, pyPath, pyPc, errH, closeH, closeArgs, pyValue,
          oaPath, outcome, pyInvoked, oaInvoked, pySpawned, pyCleaned,
          unlinkFailed, apiSeen, probePc, probeResult, probeSeen, arg, ret, results,
          isRecording, mediaRecorder, audioChunks, timerInterval, recordBtn,
          stopBtn, clicks, requests, recorders, intervals, timers, sent,
          tempDirExists>>

callVars == <<pc, opts, buf, pyPath, pyPc, errH, closeH, closeArgs,
              pyValue, oaPath, outcome, pyInvoked, oaInvoked, pySpawned,
              pyCleaned, unlinkFailed, apiSeen>>

probeVars == <<probePc, probeResult, probeSeen>>

configVars == <<useOpenAI, preferredService, pythonScript, tempDir, hfToken,
                pythonPresent>>

fnVars == <<arg, ret, results>>

clientVars == <<isRecording, mediaRecorder, audioChunks, timerInterval, recordBtn,
                stopBtn, clicks, requests, recorders, intervals, timers, sent>>

audioVars == <<tempDirExists>>

serverVars == <<received, emitted, handlers, clientVars, audioVars>>

serviceVars == <<configVars, now, files, started, callVars, probeVars>>

----------------------------------------------------------------------------
(* Bounds *)

\* the record button is clicked at most MaxClicks times
MaxClicks == 3

\* a recording gives at most MaxChunks chunks of audio
MaxChunks == 2

\* each socket sends at most MaxEvents events of a kind
MaxEvents == 2

\* Date.now() takes the values 0..MaxTime
MaxTime == 1

\* transcribeAudio is called at most MaxStarts times
MaxStarts == 2

\* audioBuffer.length is in 0..MaxBufLen
MaxBufLen == 1

\* the call slots of the state, and those the caller of Spec uses: it awaits
\* each call before it makes the next one
Slots == {"c1", "c2"}
Calls == {"c1"}

\* values of Math.random().toString(36).substr(2, 9)
Suffixes == {"r1", "r2"}

\* options.outputFormat; "\0" stands for a string with a NUL character, which
\* child_process.spawn refuses with a synchronous ERR_INVALID_ARG_VALUE.  A
\* call without outputFormat behaves as one with 'json' (the default of
\* parsePythonOutput).
OutputFormats == {"json", "markdown", "\\0"}

Undefined == "undefined"

----------------------------------------------------------------------------
(* Strings *)

Includes(s, tok) == \E i \in 1..Len(s) : s[i] = tok

IsSpace(tok) == tok \in {" ", "\n"}

RECURSIVE TrimStart(_)
TrimStart(s) ==
    IF s # <<>> /\ IsSpace(Head(s)) THEN TrimStart(Tail(s)) ELSE s

RECURSIVE TrimEnd(_)
TrimEnd(s) ==
    IF s # <<>> /\ IsSpace(s[Len(s)]) THEN TrimEnd(SubSeq(s, 1, Len(s) - 1)) ELSE s

Trim(s) == TrimEnd(TrimStart(s))

RECURSIVE Join(_)
Join(words) ==
    IF words = <<>> THEN <<>>
    ELSE IF Len(words) = 1 THEN <<words[1]>>
    ELSE <<words[1], " ">> \o Join(Tail(words))

----------------------------------------------------------------------------
(* What the child processes and the remote API can do *)

\* stdout of transcription_pipeline.py
OutSegments == <<"{\"segments\":[hej,du]}", "\n">>
OutMarkdown == <<"{\"markdown\":\"# T\"}", "\n">>
OutGarbage == <<" ", "Traceback">>
Stdouts == {OutSegments, OutMarkdown, OutGarbage}

\* stderr of transcription_pipeline.py
Stderrs == {<<>>, <<"boom">>}

\* stderr of the probe process
ProbeStderrs == {<<>>, <<"warning">>, <<"Traceback", "ModuleNotFoundError">>}

ExitCodes == {0, 1}

\* exit code of the 'close' event that follows a failed spawn (-ENOENT)
EnoentCode == -2

SpawnErrorMessage == <<"spawn python3 ENOENT">>

\* responses of openai.audio.transcriptions.create
ApiText == <<"h", "e", "j", ".">>
ApiOutcomes ==
    { [ok |-> TRUE, text |-> ApiText, language |-> Undefined, msg |-> <<>>],
      [ok |-> TRUE, text |-> <<>>, language |-> "sv", msg |-> <<>>],
      [ok |-> FALSE, text |-> <<>>, language |-> Undefined, msg |-> <<"Connection error.">>],
      [ok |-> FALSE, text |-> <<>>, language |-> Undefined, msg |-> <<"Request timed out.">>] }

----------------------------------------------------------------------------
(* Values *)

Min(a, b) == IF a < b THEN a ELSE b

\* a result object; a property the object does not have reads as undefined.
\* producer is not a property of the object: it records which strategy built it.
MkResult(text, language, confidence, pipeline, mock, producer) ==
    [text |-> text, language |-> language, confidence |-> confidence,
     pipeline |-> pipeline, mock |-> mock, producer |-> producer]

NoResult == MkResult(<<>>, Undefined, 0, Undefined, FALSE, "none")

Pending == [kind |-> "pending", res |-> NoResult, msg |-> <<>>]
Returned(r) == [kind |-> "result", res |-> r, msg |-> <<>>]
Thrown(m) == [kind |-> "error", res |-> NoResult, msg |-> m]

\* confidence: 0.9 of the subprocess strategy, scaled by 1000
PyConfidence == 900

PyPipeline == "python-local"

----------------------------------------------------------------------------
(* PythonTranscriptionService: pure parts *)

\* JSON.parse of the stdout of the script.  A property the parsed object does
\* not have is flagged (hasMarkdown, hasSegments) and reads as undefined.
JSONparse(output) ==
    LET t == Trim(output) IN
    IF t = Trim(OutSegments)
    THEN [ok |-> TRUE, hasMarkdown |-> FALSE, markdown |-> <<>>,
          hasSegments |-> TRUE, segments |-> <<"hej", "du">>, err |-> <<>>]
    ELSE IF t = Trim(OutMarkdown)
    THEN [ok |-> TRUE, hasMarkdown |-> TRUE, markdown |-> <<"# T">>,
          hasSegments |-> FALSE, segments |-> <<>>, err |-> <<>>]
    ELSE IF t = <<>> \/ t = <<"{\"segments\":[">>
    THEN [ok |-> FALSE, hasMarkdown |-> FALSE, markdown |-> <<>>,
          hasSegments |-> FALSE, segments |-> <<>>,
          err |-> <<"Unexpected end of JSON input">>]
    ELSE [ok |-> FALSE, hasMarkdown |-> FALSE, markdown |-> <<>>,
          hasSegments |-> FALSE, segments |-> <<>>, err |-> <<"Unexpected token">>]

\* a parser that returns the output of 'markdown' as it is
parsePythonOutput_NoTrim(output, outputFormat) ==
    IF outputFormat = "markdown"
    THEN [ok |-> TRUE, text |-> output, hasMarkdown |-> FALSE,
          markdown |-> <<>>, hasSegments |-> FALSE, segments |-> <<>>, err |-> <<>>]
    ELSE LET j == JSONparse(output) IN
         [ok |-> j.ok, text |-> <<>>, hasMarkdown |-> j.hasMarkdown,
          markdown |-> j.markdown, hasSegments |-> j.hasSegments,
          segments |-> j.segments,
          err |-> IF j.ok THEN <<>>
                  ELSE <<"Invalid output from Python script:">> \o j.err]

\* a parser that answers a parse failure with an empty object
parsePythonOutput_SwallowsError(output, outputFormat) ==
    IF outputFormat = "markdown"
    THEN [ok |-> TRUE, text |-> Trim(output), hasMarkdown |-> FALSE,
          markdown |-> <<>>, hasSegments |-> FALSE, segments |-> <<>>, err |-> <<>>]
    ELSE LET j == JSONparse(output) IN
         [ok |-> TRUE, text |-> <<>>, hasMarkdown |-> j.hasMarkdown,
          markdown |-> j.markdown, hasSegments |-> j.hasSegments,
          segments |-> j.segments, err |-> <<>>]

\* parsePythonOutput(output, outputFormat = 'json'): the trimmed text for
\* 'markdown', the parsed object otherwise; a parse failure is rethrown
parsePythonOutput(output, outputFormat) ==
    IF outputFormat = "markdown"
    THEN [ok |-> TRUE, text |-> Trim(output), hasMarkdown |-> FALSE,
          markdown |-> <<>>, hasSegments |-> FALSE, segments |-> <<>>, err |-> <<>>]
    ELSE LET j == JSONparse(output) IN
         [ok |-> j.ok, text |-> <<>>, hasMarkdown |-> j.hasMarkdown,
          markdown |-> j.markdown, hasSegments |-> j.hasSegments,
          segments |-> j.segments,
          err |-> IF j.ok THEN <<>>
                  ELSE <<"Invalid output from Python script:">> \o j.err]

\* a text that prefers the words of the segments to the markdown field
PyText_SegmentsFirst(parsed) ==
    IF parsed.hasSegments /\ Join(parsed.segments) # <<>>
    THEN Join(parsed.segments)
    ELSE IF parsed.hasMarkdown THEN parsed.markdown
    ELSE <<>>

\* result.markdown || result.segments?.map(w => w.word).join(' ') || ''
PyText(parsed) ==
    IF parsed.hasMarkdown /\ parsed.markdown # <<>> THEN parsed.markdown
    ELSE IF parsed.hasSegments /\ Join(parsed.segments) # <<>>
    THEN Join(parsed.segments)
    ELSE <<>>

\* a failure message that leaves the captured stderr out
PyExitMessage_NoStderr(code, stderr) ==
    <<"Python script failed with code", ToString(code)>>

\* `Python script failed with code ${code}: ${stderr}`
PyExitMessage(code, stderr) ==
    <<"Python script failed with code", ToString(code), ":">> \o stderr

PySpawnMessage == <<"Failed to start Python process:">> \o SpawnErrorMessage

PySaveMessage == <<"Failed to save audio buffer:", "EACCES">>

SpawnThrowMessage == <<"ERR_INVALID_ARG_VALUE">>

\* a 'close' handler that tests the exit code only when stdout does not parse
OnCloseSettlement_ParsesFirst(code, stdout, stderr, outputFormat) ==
    LET parsed == parsePythonOutput(stdout, outputFormat) IN
    IF parsed.ok
    THEN Returned(MkResult(IF outputFormat = "markdown" THEN parsed.text
                           ELSE PyText(parsed),
                           "sv", PyConfidence, PyPipeline, FALSE, "python"))
    ELSE IF code # 0 THEN Thrown(PyExitMessage(code, stderr))
    ELSE Thrown(parsed.err)

\* the body of the 'close' handler after the cleanup: what the promise is
\* settled with
OnCloseSettlement(code, stdout, stderr, outputFormat) ==
    IF code # 0 THEN Thrown(PyExitMessage(code, stderr))
    ELSE LET parsed == parsePythonOutput(stdout, outputFormat) IN
         IF ~parsed.ok THEN Thrown(parsed.err)
         ELSE IF outputFormat = "markdown"
         THEN Returned(MkResult(parsed.text, "sv", PyConfidence, PyPipeline,
                                FALSE, "python"))
         ELSE Returned(MkResult(PyText(parsed), "sv", PyConfidence, PyPipeline,
                                FALSE, "python"))

\* the body of the 'error' handler after the cleanup
OnErrorSettlement == Thrown(PySpawnMessage)

----------------------------------------------------------------------------
(* TranscriptionService: pure parts *)

PunctuationMarks == {".", ",", "!", "?", ";"}

\* (text.match(/[.,!?;]/g) || []).length: the number of positions of the text
\* that hold a punctuation mark
punctuationCount(text) ==
    Cardinality({i \in 1..Len(text) : text[i] \in PunctuationMarks})

\* a confidence whose punctuation bonus has no cap of its own
calculateConfidence_NoMarkCap(text) ==
    IF Len(text) = 0 THEN 0
    ELSE Min(500 + Min(Len(text) * 10, 300) + punctuationCount(text) * 100, 1000)

\* calculateConfidence(text), scaled by 1000; text is a sequence of characters
calculateConfidence(text) ==
    IF Len(text) = 0 THEN 0
    ELSE Min(500 + Min(Len(text) * 10, 300) + Min(punctuationCount(text) * 100, 200),
             1000)

\* the object transcribeWithOpenAI returns
OpenAIResult(response, language) ==
    MkResult(response.text,
             IF response.language # Undefined THEN response.language ELSE language,
             calculateConfidence(response.text),
             Undefined, FALSE, "openai")

\* the canned texts of getMockTranscription
mockResponses ==
    << <<"Hello, this is a test transcription of the audio.">>,
       <<"The audio transcription feature is working correctly.">>,
       <<"This is sample text that would normally come from speech recognition.">>,
       <<"Audio processing and transcription is now active.">>,
       <<"Testing the real-time transcription capabilities.">> >>

\* values of Math.random(), scaled by 1000
Randoms == {0, 250, 500, 750, 999}

\* Math.floor(Math.random() * mockResponses.length), counted from 1
MockIndex(r) == ((r * Len(mockResponses)) \div 1000) + 1

\* a mock confidence that spreads the random number over 0.4
MockConfidence_UpToOne(r) == ((r * 4) \div 10) + 700

\* Math.random() * 0.3 + 0.7, scaled by 1000
MockConfidence(r) == ((r * 3) \div 10) + 700

\* the object the timer callback of getMockTranscription resolves with; r1 and
\* r2 are its two random numbers
MockResult(o, r1, r2) ==
    MkResult(mockResponses[MockIndex(r1)],
             IF o.language # Undefined THEN o.language ELSE "en",
             MockConfidence(r2),
             Undefined, TRUE, "mock")

\* a test of the label that lets 'Unknown' through
Labelled_KeepsUnknown(label) == label # ""

\* s && s !== 'Unknown'; a segment without speaker has the label ""
Labelled(label) == label # "" /\ label # "Unknown"

\* [...new Set(seq)]: the distinct elements in the order of their first
\* appearance
RECURSIVE Distinct(_)
Distinct(seq) ==
    IF seq = <<>> THEN <<>>
    ELSE LET rest == Distinct(SubSeq(seq, 1, Len(seq) - 1))
             last == seq[Len(seq)]
         IN  IF \E i \in 1..Len(rest) : rest[i] = last THEN rest
             ELSE Append(rest, last)

\* Math.min(...seq) and Math.max(...seq) of a sequence that is not empty
SeqMin(seq) == CHOOSE m \in {seq[i] : i \in 1..Len(seq)} : \A i \in 1..Len(seq) : m <= seq[i]
SeqMax(seq) == CHOOSE m \in {seq[i] : i \in 1..Len(seq)} : \A i \in 1..Len(seq) : m >= seq[i]

\* extractSpeakerInfo(result).  hasSegments is false when result.segments is
\* missing, null or not an array: the object returned then has no
\* speakerStats property (hasStats is false).
extractSpeakerInfo(result) ==
    IF ~result.hasSegments
    THEN [speakers |-> <<>>, speakerCount |-> 0, speakerSegments |-> <<>>,
          hasStats |-> FALSE, speakerStats |-> <<>>]
    ELSE LET segs == result.segments
             labels == [i \in 1..Len(segs) |-> segs[i].speaker]
             speakers == Distinct(SelectSeq(labels, Labelled))
             group(sp) == SelectSeq(segs, LAMBDA g : Labelled(g.speaker) /\ g.speaker = sp)
             starts(sp) == [i \in 1..Len(group(sp)) |-> group(sp)[i].start]
             ends(sp) == [i \in 1..Len(group(sp)) |-> group(sp)[i].end]
         IN  [speakers |-> speakers,
              speakerCount |-> Len(speakers),
              speakerSegments |-> [i \in 1..Len(speakers) |-> group(speakers[i])],
              hasStats |-> TRUE,
              speakerStats |->
                  [i \in 1..Len(speakers) |->
                      [speaker |-> speakers[i],
                       wordCount |-> Len(group(speakers[i])),
                       startTime |-> SeqMin(starts(speakers[i])),
                       endTime |-> SeqMax(ends(speakers[i])),
                       duration |-> SeqMax(ends(speakers[i])) - SeqMin(starts(speakers[i]))]]]

\* lines.join('\n')
RECURSIVE JoinLines(_)
JoinLines(lines) ==
    IF lines = <<>> THEN <<>>
    ELSE IF Len(lines) = 1 THEN lines[1]
    ELSE lines[1] \o <<"\n">> \o JoinLines(Tail(lines))

\* `${stat.speaker}: ${stat.wordCount} words (${stat.duration.toFixed(1)}s)`;
\* the times of the model are whole numbers, which toFixed(1) prints with ".0"
StatLine(stat) ==
    <<stat.speaker, ":", ToString(stat.wordCount), "words", "(",
      ToString(stat.duration), ".0", "s)">>

\* formatTranscriptionResult(result, format): what it returns, or that it
\* threw.  hasSpeakers says result.speakers is truthy; rawMarkdown is <<>> when
\* result.raw?.markdown is not.
formatTranscriptionResult(result, format) ==
    IF format = "markdown" /\ result.rawMarkdown # <<>>
    THEN [threw |-> FALSE, val |-> result.rawMarkdown]
    ELSE IF format = "speakers" /\ result.hasSpeakers
    THEN LET speakerInfo == extractSpeakerInfo(result) IN
         IF ~speakerInfo.hasStats
         THEN \* speakerInfo.speakerStats is undefined: .map throws
              [threw |-> TRUE, val |-> <<"TypeError">>]
         ELSE [threw |-> FALSE,
               val |-> JoinLines([i \in 1..Len(speakerInfo.speakerStats) |->
                                     StatLine(speakerInfo.speakerStats[i])])]
    ELSE [threw |-> FALSE, val |-> result.text]

\* a wrapper that drops the message of the error it wraps
Wrap_Generic(msg) == <<"Transcription failed:">>

\* new Error(`Transcription failed: ${error.message}`)
Wrap(msg) == <<"Transcription failed:">> \o msg

\* language = 'en' by default
OptLanguage(o) == IF o.language = Undefined THEN "en" ELSE o.language

\* options.language of the calls made
Languages == {Undefined}

Options == [outputFormat : OutputFormats, language : Languages]

NoOptions == [outputFormat |-> Undefined, language |-> Undefined]

\* outputFormat as parsePythonOutput and the 'close' handler see it
Format(o) == o.outputFormat

----------------------------------------------------------------------------
(* State *)

\* path.join(this.tempDir, `audio_${Date.now()}_${random}.wav`)
PyTempPath(t, r) == [dir |-> tempDir, t |-> t, r |-> r]

\* path.join(__dirname, 'temp', `temp_audio_${Date.now()}.wav`)
OaTempPath(t) == [dir |-> "temp", t |-> t, r |-> ""]

NoPath == [dir |-> "", t |-> 0, r |-> ""]

NoCloseArgs == [code |-> 0, stdout |-> <<>>, stderr |-> <<>>]

NoProbe == [how |-> "none", code |-> 0, stderr |-> <<>>]

NoApi == [how |-> "none", msg |-> <<>>]

\* no function is being called on its own
NoArg == [fn |-> "none"]
NoRet == [set |-> FALSE]

\* the two services after construction, process.env.HF_TOKEN being one of tokens
InitServicesWith(tokens) ==
    /\ useOpenAI \in BOOLEAN
    /\ preferredService = "python"
    /\ pythonScript = "transcription_pipeline.py"
    /\ tempDir = "temp_audio_transa"
    /\ hfToken \in tokens
    /\ pythonPresent \in BOOLEAN
    /\ now = 0
    /\ files = {}
    /\ started = 0
    /\ pc = [c \in Slots |-> "idle"]
    /\ opts = [c \in Slots |-> NoOptions]
    /\ buf = [c \in Slots |-> 0]
    /\ pyPath = [c \in Slots |-> NoPath]
    /\ pyPc = [c \in Slots |-> "none"]
    /\ errH = [c \in Slots |-> "none"]
    /\ closeH = [c \in Slots |-> "none"]
    /\ closeArgs = [c \in Slots |-> NoCloseArgs]
    /\ pyValue = [c \in Slots |-> Pending]
    /\ oaPath = [c \in Slots |-> NoPath]
    /\ outcome = [c \in Slots |-> Pending]
    /\ pyInvoked = [c \in Slots |-> 0]
    /\ oaInvoked = [c \in Slots |-> 0]
    /\ pySpawned = [c \in Slots |-> FALSE]
    /\ pyCleaned = [c \in Slots |-> FALSE]
    /\ unlinkFailed = [c \in Slots |-> FALSE]
    /\ apiSeen = [c \in Slots |-> NoApi]
    /\ probePc = "idle"
    /\ probeResult = "pending"
    /\ probeSeen = NoProbe

\* the two services after construction, with no HF_TOKEN in the environment
InitServices == InitServicesWith({Undefined})

\* the sockets of the server
Sockets == {"s1", "s2"}

\* the state variables of the browser client as they are declared; the two
\* buttons as updateRecordingUI(false) sets them
InitClient ==
    /\ isRecording = FALSE
    /\ mediaRecorder = 0
    /\ audioChunks = <<>>
    /\ timerInterval = 0
    /\ recordBtn = FALSE
    /\ stopBtn = TRUE
    /\ clicks = 0
    /\ requests = 0
    /\ recorders = <<>>
    /\ intervals = {}
    /\ timers = 0
    /\ sent = <<>>

\* no client has sent anything
InitServer ==
    /\ received = [s \in Sockets |-> 0]
    /\ emitted = [s \in Sockets |-> <<>>]
    /\ handlers = <<>>
    /\ InitClient
    /\ tempDirExists = FALSE

Init ==
    /\ InitServices
    /\ InitServer
    /\ arg = NoArg
    /\ ret = NoRet
    /\ results = <<>>

\* a promise that takes the value of every resolve and reject called on it
Settle_LastWins(c, v) ==
    pyValue' = [pyValue EXCEPT ![c] = v]

\* resolve(v) or reject(v) of the promise of the subprocess strategy: the first
\* settlement stands
Settle(c, v) ==
    pyValue' = [pyValue EXCEPT ![c] = IF @.kind = "pending" THEN v ELSE @]

\* fs.unlink(path) of cleanupTempFile, run for call c: it removes the file, or
\* fails (and is logged) and leaves it
Unlink(c, path, ok) ==
    /\ files' = IF ok THEN files \ {path} ELSE files
    /\ unlinkFailed' = [unlinkFailed EXCEPT ![c] = @ \/ (path \in files /\ ~ok)]

----------------------------------------------------------------------------
(* PythonTranscriptionService.transcribeAudio *)

\* the promise executor up to the await of saveAudioBuffer: the file name is
\* built and fs.writeFile is issued
saveAudioBuffer(c, r) ==
    /\ pyInvoked' = [pyInvoked EXCEPT ![c] = @ + 1]
    /\ pyPath' = [pyPath EXCEPT ![c] = PyTempPath(now, r)]
    /\ pyPc' = [pyPc EXCEPT ![c] = "writing"]

\* the callback of fs.writeFile, and the executor from there down to spawn
saveAudioBufferDone(c, ok) ==
    /\ pyPc[c] = "writing"
    /\ IF ~ok
       THEN /\ Settle(c, Thrown(PySaveMessage))
            /\ pyPc' = [pyPc EXCEPT ![c] = "failed"]
            /\ UNCHANGED <<files, pySpawned>>
       ELSE /\ files' = files \cup {pyPath[c]}
            /\ IF Format(opts[c]) = "\\0"
               THEN \* spawn throws; catch (error) { reject(error) }
                    /\ Settle(c, Thrown(SpawnThrowMessage))
                    /\ pyPc' = [pyPc EXCEPT ![c] = "failed"]
                    /\ UNCHANGED pySpawned
               ELSE /\ pyPc' = [pyPc EXCEPT ![c] = "running"]
                    /\ pySpawned' = [pySpawned EXCEPT ![c] = TRUE]
                    /\ UNCHANGED pyValue
    /\ UNCHANGED <<configVars, fnVars, serverVars, now, started, pc, opts, buf, pyPath, errH, closeH,
                   closeArgs, apiSeen, oaPath, outcome, pyInvoked, oaInvoked, pyCleaned,
                   unlinkFailed, probeVars>>

\* an 'error' handler that rejects without awaiting cleanupTempFile
PyOnError_RejectsBeforeCleanup(c) ==
    /\ pyPc[c] = "running"
    /\ ~pythonPresent
    /\ pyPc' = [pyPc EXCEPT ![c] = "errored"]
    /\ errH' = [errH EXCEPT ![c] = IF pyPath[c] \in files THEN "unlinking" ELSE "done"]
    /\ pyCleaned' = [pyCleaned EXCEPT ![c] = @ \/ pyPath[c] \notin files]
    /\ Settle(c, OnErrorSettlement)
    /\ UNCHANGED <<configVars, fnVars, serverVars, now, files, started, pc, opts, buf, pyPath, closeH,
                   closeArgs, apiSeen, oaPath, outcome, pyInvoked, oaInvoked, pySpawned,
                   unlinkFailed, probeVars>>

\* pythonProcess.on('error'): the handler up to the await of cleanupTempFile,
\* and to its end when the file does not exist
PyOnError(c) ==
    /\ pyPc[c] = "running"
    /\ ~pythonPresent
    /\ pyPc' = [pyPc EXCEPT ![c] = "errored"]
    /\ IF pyPath[c] \in files
       THEN /\ errH' = [errH EXCEPT ![c] = "unlinking"]
            /\ UNCHANGED <<pyValue, pyCleaned>>
       ELSE /\ errH' = [errH EXCEPT ![c] = "done"]
            /\ pyCleaned' = [pyCleaned EXCEPT ![c] = TRUE]
            /\ Settle(c, OnErrorSettlement)
    /\ UNCHANGED <<configVars, fnVars, serverVars, now, files, started, pc, opts, buf, pyPath, closeH,
                   closeArgs, apiSeen, oaPath, outcome, pyInvoked, oaInvoked, pySpawned,
                   unlinkFailed, probeVars>>

\* the callback of fs.unlink in the 'error' handler, and the rest of the handler
PyErrorUnlinkDone(c, ok) ==
    /\ errH[c] = "unlinking"
    /\ Unlink(c, pyPath[c], ok)
    /\ errH' = [errH EXCEPT ![c] = "done"]
    /\ pyCleaned' = [pyCleaned EXCEPT ![c] = TRUE]
    /\ Settle(c, OnErrorSettlement)
    /\ UNCHANGED <<configVars, fnVars, serverVars, now, started, pc, opts, buf, pyPath, pyPc, closeH,
                   closeArgs, apiSeen, oaPath, outcome, pyInvoked, oaInvoked, pySpawned,
                   probeVars>>

\* pythonProcess.on('close'): the handler up to the await of cleanupTempFile,
\* and to its end when the file does not exist
RunClose(c, code, stdout, stderr) ==
    /\ pyPc' = [pyPc EXCEPT ![c] = "closed"]
    /\ closeArgs' = [closeArgs EXCEPT
                       ![c] = [code |-> code, stdout |-> stdout, stderr |-> stderr]]
    /\ IF pyPath[c] \in files
       THEN /\ closeH' = [closeH EXCEPT ![c] = "unlinking"]
            /\ UNCHANGED <<pyValue, pyCleaned>>
       ELSE /\ closeH' = [closeH EXCEPT ![c] = "done"]
            /\ pyCleaned' = [pyCleaned EXCEPT ![c] = TRUE]
            /\ Settle(c, OnCloseSettlement(code, stdout, stderr, Format(opts[c])))
    /\ UNCHANGED <<configVars, fnVars, serverVars, now, files, started, pc, opts, buf, pyPath, errH,
                   oaPath, outcome, pyInvoked, oaInvoked, pySpawned, unlinkFailed,
                   apiSeen, probeVars>>

\* the child ran and exited
PyOnClose(c, code, stdout, stderr) ==
    /\ pyPc[c] = "running"
    /\ pythonPresent
    /\ RunClose(c, code, stdout, stderr)

\* the 'close' event that follows the 'error' event of a failed spawn
PyOnCloseAfterError(c) ==
    /\ pyPc[c] = "errored"
    /\ RunClose(c, EnoentCode, <<>>, <<>>)

\* the callback of fs.unlink in the 'close' handler, and the rest of the handler
PyCloseUnlinkDone(c, ok) ==
    /\ closeH[c] = "unlinking"
    /\ Unlink(c, pyPath[c], ok)
    /\ closeH' = [closeH EXCEPT ![c] = "done"]
    /\ pyCleaned' = [pyCleaned EXCEPT ![c] = TRUE]
    /\ Settle(c, OnCloseSettlement(closeArgs[c].code, closeArgs[c].stdout,
                                   closeArgs[c].stderr, Format(opts[c])))
    /\ UNCHANGED <<configVars, fnVars, serverVars, now, started, pc, opts, buf, pyPath, pyPc, errH,
                   closeArgs, apiSeen, oaPath, outcome, pyInvoked, oaInvoked, pySpawned,
                   probeVars>>

----------------------------------------------------------------------------
(* TranscriptionService *)

WriteErrorMessage == <<"ENOSPC: no space left on device, write">>

UnlinkErrorMessage == <<"EPERM: operation not permitted, unlink">>

\* transcribeWithOpenAI down to the await of the API call: the temp file is
\* written with fs.writeFileSync, which throws when it fails; the catch
\* rethrows, and the catch of transcribeAudio wraps the error
transcribeWithOpenAI(c, wok) ==
    /\ oaInvoked' = [oaInvoked EXCEPT ![c] = @ + 1]
    /\ oaPath' = [oaPath EXCEPT ![c] = OaTempPath(now)]
    /\ IF wok
       THEN /\ files' = files \cup {OaTempPath(now)}
            /\ pc' = [pc EXCEPT ![c] = "openai"]
            /\ UNCHANGED outcome
       ELSE /\ outcome' = [outcome EXCEPT ![c] = Thrown(Wrap(WriteErrorMessage))]
            /\ pc' = [pc EXCEPT ![c] = "done"]
            /\ UNCHANGED files

\* getMockTranscription down to setTimeout; the timer callback reads
\* audioBuffer.length (n)
getMockTranscription(c, n) ==
    /\ pc' = [pc EXCEPT ![c] = "mock"]
    /\ buf' = [buf EXCEPT ![c] = n]
    /\ UNCHANGED <<files, oaPath, oaInvoked, outcome>>

\* transcribeAudio(audioBuffer, options) down to its first await
transcribeAudioCall(c, o, n) ==
    /\ pc[c] = "idle"
    /\ started < MaxStarts
    /\ started' = started + 1
    /\ opts' = [opts EXCEPT ![c] = o]
    /\ IF preferredService = "python"
       THEN /\ \E r \in Suffixes : saveAudioBuffer(c, r)
            /\ pc' = [pc EXCEPT ![c] = "python"]
            /\ UNCHANGED <<files, oaPath, oaInvoked, outcome, buf>>
       ELSE /\ IF useOpenAI
               THEN /\ \E wok \in BOOLEAN : transcribeWithOpenAI(c, wok)
                    /\ UNCHANGED buf
               ELSE getMockTranscription(c, n)
            /\ UNCHANGED <<pyInvoked, pyPath, pyPc>>
    /\ UNCHANGED <<configVars, serverVars, now, errH, closeH, closeArgs, apiSeen, pyValue, pySpawned,
                   pyCleaned, unlinkFailed, probeVars>>

\* transcribeAudio called by a caller that does nothing else in the step
transcribeAudio(c, o, n) ==
    /\ transcribeAudioCall(c, o, n)
    /\ UNCHANGED fnVars

\* a catch (pythonError) block that falls back without testing this.useOpenAI
AfterPython_AlwaysFallsBack(c, wok) ==
    /\ pc[c] = "python"
    /\ pyValue[c].kind # "pending"
    /\ IF pyValue[c].kind = "result"
       THEN /\ outcome' = [outcome EXCEPT ![c] = Returned(pyValue[c].res)]
            /\ pc' = [pc EXCEPT ![c] = "done"]
            /\ UNCHANGED <<files, oaPath, oaInvoked>>
       ELSE transcribeWithOpenAI(c, wok)
    /\ UNCHANGED <<configVars, fnVars, serverVars, now, started, opts, buf, pyPath, pyPc, errH, closeH,
                   closeArgs, apiSeen, pyValue, pyInvoked, pySpawned, pyCleaned,
                   unlinkFailed, probeVars>>

\* a catch (pythonError) block that stops preferring the subprocess strategy
\* once it has failed
AfterPython_DemotesPreferred(c, wok) ==
    /\ pc[c] = "python"
    /\ pyValue[c].kind # "pending"
    /\ IF pyValue[c].kind = "result"
       THEN /\ outcome' = [outcome EXCEPT ![c] = Returned(pyValue[c].res)]
            /\ pc' = [pc EXCEPT ![c] = "done"]
            /\ UNCHANGED <<files, oaPath, oaInvoked, preferredService>>
       ELSE /\ preferredService' = "openai"
            /\ IF useOpenAI
               THEN transcribeWithOpenAI(c, wok)
               ELSE /\ outcome' = [outcome EXCEPT ![c] = Thrown(Wrap(pyValue[c].msg))]
                    /\ pc' = [pc EXCEPT ![c] = "done"]
                    /\ UNCHANGED <<files, oaPath, oaInvoked>>
    /\ UNCHANGED <<useOpenAI, pythonScript, tempDir, hfToken, pythonPresent,
                   fnVars, serverVars, now, started, opts, buf, pyPath, pyPc, errH,
                   closeH, closeArgs, apiSeen, pyValue, pyInvoked, pySpawned,
                   pyCleaned, unlinkFailed, probeVars>>

\* the continuation of `await this.pythonService.transcribeAudio(...)`:
\* return pythonResult, or the catch (pythonError) block
AfterPython(c, wok) ==
    /\ pc[c] = "python"
    /\ pyValue[c].kind # "pending"
    /\ IF pyValue[c].kind = "result"
       THEN /\ outcome' = [outcome EXCEPT ![c] = Returned(pyValue[c].res)]
            /\ pc' = [pc EXCEPT ![c] = "done"]
            /\ UNCHANGED <<files, oaPath, oaInvoked>>
       ELSE IF useOpenAI
       THEN transcribeWithOpenAI(c, wok)
       ELSE /\ outcome' = [outcome EXCEPT ![c] = Thrown(Wrap(pyValue[c].msg))]
            /\ pc' = [pc EXCEPT ![c] = "done"]
            /\ UNCHANGED <<files, oaPath, oaInvoked>>
    /\ UNCHANGED <<configVars, fnVars, serverVars, now, started, opts, buf, pyPath, pyPc, errH, closeH,
                   closeArgs, apiSeen, pyValue, pyInvoked, pySpawned, pyCleaned,
                   unlinkFailed, probeVars>>

\* the continuation of `await this.openai.audio.transcriptions.create(...)`:
\* fs.unlinkSync and the return, or the catch blocks
AfterOpenAI(c, response, uok) ==
    /\ pc[c] = "openai"
    /\ pc' = [pc EXCEPT ![c] = "done"]
    /\ apiSeen' = [apiSeen EXCEPT ![c] = [how |-> IF response.ok THEN "ok" ELSE "failed",
                                          msg |-> response.msg]]
    /\ IF ~response.ok
       THEN /\ outcome' = [outcome EXCEPT ![c] = Thrown(Wrap(response.msg))]
            /\ UNCHANGED <<files, unlinkFailed>>
       ELSE IF oaPath[c] \in files /\ uok
       THEN /\ files' = files \ {oaPath[c]}
            /\ outcome' = [outcome EXCEPT
                             ![c] = Returned(OpenAIResult(response, OptLanguage(opts[c])))]
            /\ UNCHANGED unlinkFailed
       ELSE /\ outcome' = [outcome EXCEPT ![c] = Thrown(Wrap(UnlinkErrorMessage))]
            /\ unlinkFailed' = [unlinkFailed EXCEPT ![c] = @ \/ (oaPath[c] \in files)]
            /\ UNCHANGED files
    /\ UNCHANGED <<configVars, fnVars, serverVars, now, started, opts, buf, pyPath, pyPc, errH, closeH,
                   closeArgs, pyValue, oaPath, pyInvoked, oaInvoked, pySpawned,
                   pyCleaned, probeVars>>

\* no callback of the subprocess strategy of call c is still to run
PyQuiet(c) ==
    /\ pyPc[c] \in {"none", "failed", "closed"}
    /\ errH[c] # "unlinking"
    /\ closeH[c] # "unlinking"

\* the caller has taken the result or the error; the slot is free for a new call
Return(c) ==
    /\ pc[c] = "done"
    /\ PyQuiet(c)
    /\ pc' = [pc EXCEPT ![c] = "idle"]
    /\ opts' = [opts EXCEPT ![c] = NoOptions]
    /\ buf' = [buf EXCEPT ![c] = 0]
    /\ pyPath' = [pyPath EXCEPT ![c] = NoPath]
    /\ pyPc' = [pyPc EXCEPT ![c] = "none"]
    /\ errH' = [errH EXCEPT ![c] = "none"]
    /\ closeH' = [closeH EXCEPT ![c] = "none"]
    /\ closeArgs' = [closeArgs EXCEPT ![c] = NoCloseArgs]
    /\ pyValue' = [pyValue EXCEPT ![c] = Pending]
    /\ oaPath' = [oaPath EXCEPT ![c] = NoPath]
    /\ outcome' = [outcome EXCEPT ![c] = Pending]
    /\ pyInvoked' = [pyInvoked EXCEPT ![c] = 0]
    /\ oaInvoked' = [oaInvoked EXCEPT ![c] = 0]
    /\ pySpawned' = [pySpawned EXCEPT ![c] = FALSE]
    /\ pyCleaned' = [pyCleaned EXCEPT ![c] = FALSE]
    /\ unlinkFailed' = [unlinkFailed EXCEPT ![c] = FALSE]
    /\ apiSeen' = [apiSeen EXCEPT ![c] = NoApi]
    /\ UNCHANGED <<configVars, fnVars, serverVars, now, files, started, probeVars>>

\* the clock advances
Tick ==
    /\ now < MaxTime
    /\ now' = now + 1
    /\ UNCHANGED <<configVars, fnVars, serverVars, files, started, callVars, probeVars>>

----------------------------------------------------------------------------
(* PythonTranscriptionService.isAvailable *)

ModuleNotFound == "ModuleNotFoundError"

\* a verdict that looks at the exit code alone
ProbeVerdict_ExitCodeOnly(code, stderr) ==
    IF code = 0 THEN "true" ELSE "false"

\* resolve(code === 0 && !stderr.includes('ModuleNotFoundError'))
ProbeVerdict(code, stderr) ==
    IF code = 0 /\ ~Includes(stderr, ModuleNotFound) THEN "true" ELSE "false"

\* resolve(v): the first settlement stands
ProbeResolve(v) ==
    probeResult' = IF probeResult = "pending" THEN v ELSE probeResult

\* isAvailable() down to the return of the promise: the probe is spawned
isAvailable ==
    /\ probePc \in {"idle", "closed"}
    /\ probePc' = "running"
    /\ probeResult' = "pending"
    /\ probeSeen' = NoProbe
    /\ UNCHANGED <<configVars, fnVars, serverVars, now, files, started, callVars>>

\* pythonProcess.on('error', () => resolve(false))
ProbeOnError ==
    /\ probePc = "running"
    /\ ~pythonPresent
    /\ probePc' = "errored"
    /\ ProbeResolve("false")
    /\ probeSeen' = [how |-> "error", code |-> EnoentCode, stderr |-> <<>>]
    /\ UNCHANGED <<configVars, fnVars, serverVars, now, files, started, callVars>>

\* pythonProcess.on('close', ...) after the 'error' event of a failed spawn
ProbeOnCloseAfterError ==
    /\ probePc = "errored"
    /\ probePc' = "closed"
    /\ ProbeResolve(ProbeVerdict(EnoentCode, <<>>))
    /\ UNCHANGED <<configVars, fnVars, serverVars, now, files, started, callVars, probeSeen>>

\* pythonProcess.on('close', ...) of a probe that ran
ProbeOnClose(code, stderr) ==
    /\ probePc = "running"
    /\ pythonPresent
    /\ probePc' = "closed"
    /\ ProbeResolve(ProbeVerdict(code, stderr))
    /\ probeSeen' = [how |-> "close", code |-> code, stderr |-> stderr]
    /\ UNCHANGED <<configVars, fnVars, serverVars, now, files, started, callVars>>

\* the probe process blocks and never exits: no 'close' event comes, and
\* isAvailable has set no timer
ProbeHangs ==
    /\ probePc = "running"
    /\ pythonPresent
    /\ probePc' = "hung"
    /\ UNCHANGED <<configVars, fnVars, serverVars, now, files, started, callVars, probeResult,
                   probeSeen>>

\* the callbacks isAvailable has registered: each resolves its promise
ProbeCallback ==
    \/ ProbeOnError
    \/ ProbeOnCloseAfterError
    \/ \E code \in ExitCodes, stderr \in ProbeStderrs : ProbeOnClose(code, stderr)

----------------------------------------------------------------------------

Next ==
    \/ \E c \in Calls, o \in Options, n \in 0..MaxBufLen : transcribeAudio(c, o, n)
    \/ \E c \in Calls, ok \in BOOLEAN : saveAudioBufferDone(c, ok)
    \/ \E c \in Calls : PyOnError(c)
    \/ \E c \in Calls, ok \in BOOLEAN : PyErrorUnlinkDone(c, ok)
    \/ \E c \in Calls, code \in ExitCodes, stdout \in Stdouts, stderr \in Stderrs :
          PyOnClose(c, code, stdout, stderr)
    \/ \E c \in Calls : PyOnCloseAfterError(c)
    \/ \E c \in Calls, ok \in BOOLEAN : PyCloseUnlinkDone(c, ok)
    \/ \E c \in Calls, wok \in BOOLEAN : AfterPython(c, wok)
    \/ \E c \in Calls, response \in ApiOutcomes, uok \in BOOLEAN :
          AfterOpenAI(c, response, uok)
    \/ \E c \in Calls : Return(c)
    \/ Tick
    \/ isAvailable
    \/ ProbeOnError
    \/ ProbeOnCloseAfterError
    \/ \E code \in ExitCodes, stderr \in ProbeStderrs : ProbeOnClose(code, stderr)
    \/ ProbeHangs

Spec == Init /\ [][Next]_vars

----------------------------------------------------------------------------
(* Calls in flight at the same time: the caller does not await a call before
   it makes the next one.  The calls ask for 'json', and the child writes the
   segments and nothing on stderr. *)

ConcOptions == {[outputFormat |-> "json", language |-> Undefined]}

\* transcribeAudio of a call whose random suffix differs from the suffixes of
\* the calls made before it
transcribeAudioFresh(c, o) ==
    /\ transcribeAudio(c, o, 0)
    /\ \A d \in Slots \ {c} : pyPath'[c].r # pyPath[d].r

NextConc ==
    \/ \E c \in Slots, o \in ConcOptions : transcribeAudioFresh(c, o)
    \/ \E c \in Slots, ok \in BOOLEAN : saveAudioBufferDone(c, ok)
    \/ \E c \in Slots : PyOnError(c)
    \/ \E c \in Slots, ok \in BOOLEAN : PyErrorUnlinkDone(c, ok)
    \/ \E c \in Slots, code \in ExitCodes : PyOnClose(c, code, OutSegments, <<>>)
    \/ \E c \in Slots : PyOnCloseAfterError(c)
    \/ \E c \in Slots, ok \in BOOLEAN : PyCloseUnlinkDone(c, ok)
    \/ \E c \in Slots, wok \in BOOLEAN : AfterPython(c, wok)
    \/ \E c \in Slots, response \in ApiOutcomes, uok \in BOOLEAN :
          AfterOpenAI(c, response, uok)
    \/ Tick

SpecConc == Init /\ [][NextConc]_vars

----------------------------------------------------------------------------
(* The text of a structured result, called on its own *)

\* parsed outputs have at most MaxSegments segments
MaxSegments == 3

\* the word fields of the segments
Words == {"hej", "du", "nu"}

WordSeqs == UNION {[1..n -> Words] : n \in 0..MaxSegments}

\* the markdown field, when the object has one: '' or a text
Markdowns == {<<>>, <<"# T">>}

\* what JSON.parse can return for the stdout of the script, as far as the
\* text of the result reads it
ParsedOutputs ==
    { [hasMarkdown |-> hm, markdown |-> md, hasSegments |-> hs, segments |-> sg] :
        hm \in BOOLEAN, md \in Markdowns, hs \in BOOLEAN, sg \in WordSeqs }

InitPyText ==
    /\ InitServices
    /\ InitServer
    /\ arg \in { [fn |-> "PyText", parsed |-> p] :
                  p \in { q \in ParsedOutputs :
                            /\ ~q.hasMarkdown => q.markdown = <<>>
                            /\ ~q.hasSegments => q.segments = <<>> } }
    /\ ret = NoRet
    /\ results = <<>>

\* the text property of the object the 'close' handler resolves with
CallPyText ==
    /\ arg.fn = "PyText"
    /\ ~ret.set
    /\ ret' = [set |-> TRUE, val |-> PyText(arg.parsed)]
    /\ UNCHANGED <<arg, results, serviceVars, serverVars>>

NextPyText == CallPyText

SpecPyText == InitPyText /\ [][NextPyText]_vars

----------------------------------------------------------------------------
(* calculateConfidence, called on its own *)

\* a text has at most MaxLetters letters, MaxMarks punctuation marks and
\* MaxOthers other characters
MaxLetters == 200
MaxMarks == 6
MaxOthers == 1

MarkCycle == <<".", ",", "!", "?", ";">>

\* a text of marks punctuation marks (each of the five in turn), then others
\* colons, then letters letters
TextOf(letters, marks, others) ==
    [i \in 1..(marks + others + letters) |->
        IF i <= marks THEN MarkCycle[((i - 1) % Len(MarkCycle)) + 1]
        ELSE IF i <= marks + others THEN ":"
        ELSE "a"]

InitConfidence ==
    /\ InitServices
    /\ InitServer
    /\ arg \in { [fn |-> "calculateConfidence", letters |-> l, marks |-> m, others |-> o] :
                  l \in 0..MaxLetters, m \in 0..MaxMarks, o \in 0..MaxOthers }
    /\ ret = NoRet
    /\ results = <<>>

CallConfidence ==
    /\ arg.fn = "calculateConfidence"
    /\ ~ret.set
    /\ ret' = [set |-> TRUE,
               val |-> calculateConfidence(TextOf(arg.letters, arg.marks, arg.others))]
    /\ UNCHANGED <<arg, results, serviceVars, serverVars>>

NextConfidence == CallConfidence

SpecConfidence == InitConfidence /\ [][NextConfidence]_vars

----------------------------------------------------------------------------
(* The status accessors: one call of getServiceStatus or of isConfigured *)

\* this.useOpenAI && !!process.env.OPENAI_API_KEY; the environment is the one
\* the constructor read
openaiConfigured == useOpenAI

\* what getStatus returns, given what isAvailable resolved to
getStatus(available) ==
    [available |-> available,
     pythonScript |-> pythonScript,
     tempDir |-> tempDir,
     hfTokenConfigured |-> hfToken # Undefined,
     service |-> "python-local-transcription"]

\* a status whose overallConfigured asks for both backends
getServiceStatus_NeedsBoth(available) ==
    [preferredService |-> preferredService,
     pythonService |-> getStatus(available),
     openaiConfigured |-> openaiConfigured,
     overallConfigured |-> available /\ openaiConfigured]

\* what getServiceStatus returns
getServiceStatus(available) ==
    [preferredService |-> preferredService,
     pythonService |-> getStatus(available),
     openaiConfigured |-> openaiConfigured,
     overallConfigured |-> available \/ openaiConfigured]

\* what isConfigured returns
isConfigured(available) == available \/ openaiConfigured

\* the accessor down to its await: it calls isAvailable, which spawns the probe
StatusProbe ==
    /\ ~ret.set
    /\ probePc = "idle"
    /\ isAvailable

\* the continuation of the await: the accessor returns
StatusReturn ==
    /\ ~ret.set
    /\ probeResult # "pending"
    /\ ret' = [set |-> TRUE,
               val |-> IF arg.fn = "getServiceStatus"
                       THEN getServiceStatus(probeResult = "true")
                       ELSE [configured |-> isConfigured(probeResult = "true")]]
    /\ UNCHANGED <<arg, results, serviceVars, serverVars>>

InitStatus ==
    /\ InitServicesWith({Undefined, "hf_token"})
    /\ InitServer
    /\ arg \in {[fn |-> "getServiceStatus"], [fn |-> "isConfigured"]}
    /\ ret = NoRet
    /\ results = <<>>

NextStatus ==
    \/ StatusProbe
    \/ ProbeOnError
    \/ ProbeOnCloseAfterError
    \/ \E code \in ExitCodes, stderr \in ProbeStderrs : ProbeOnClose(code, stderr)
    \/ ProbeHangs
    \/ StatusReturn

SpecStatus == InitStatus /\ [][NextStatus]_vars

----------------------------------------------------------------------------
(* getMockTranscription, called by a caller itself: transcribeAudio never
   gets to it.  The calls are in flight at the same time. *)

\* audioBuffer is null: it has no length
NullBuffer == -1

MockBuffers == {NullBuffer} \cup (0..MaxBufLen)

MockOptions == [outputFormat : {"json"}, language : {Undefined, "fi"}]

\* no timer callback has thrown: an exception nothing catches ends the process
Alive == \A c \in Slots : pc[c] # "crashed"

\* getMockTranscription(audioBuffer, options) down to the return of the promise
CallMock(c, o, n) ==
    /\ Alive
    /\ pc[c] = "idle"
    /\ started < MaxStarts
    /\ started' = started + 1
    /\ opts' = [opts EXCEPT ![c] = o]
    /\ getMockTranscription(c, n)
    /\ UNCHANGED <<configVars, fnVars, serverVars, now, pyPath, pyPc, errH, closeH,
                   closeArgs, apiSeen, pyValue, pyInvoked, pySpawned, pyCleaned,
                   unlinkFailed, probeVars>>

\* the callback of setTimeout: it builds the result and resolves, unless
\* audioBuffer.length throws
MockTimer(c, r1, r2) ==
    /\ Alive
    /\ pc[c] = "mock"
    /\ IF buf[c] = NullBuffer
       THEN /\ pc' = [pc EXCEPT ![c] = "crashed"]
            /\ UNCHANGED outcome
       ELSE /\ pc' = [pc EXCEPT ![c] = "done"]
            /\ outcome' = [outcome EXCEPT ![c] = Returned(MockResult(opts[c], r1, r2))]
    /\ UNCHANGED <<configVars, fnVars, serverVars, now, files, started, opts, buf,
                   pyPath, pyPc, errH, closeH, closeArgs, apiSeen, pyValue, oaPath,
                   pyInvoked, oaInvoked, pySpawned, pyCleaned, unlinkFailed,
                   probeVars>>

\* the timer of call c fires
MockTimerOf(c) == \E r1 \in Randoms, r2 \in Randoms : MockTimer(c, r1, r2)

NextMock ==
    \/ \E c \in Slots, o \in MockOptions, n \in MockBuffers : CallMock(c, o, n)
    \/ \E c \in Slots : MockTimerOf(c)

SpecMock == Init /\ [][NextMock]_vars

----------------------------------------------------------------------------
(* The results the three strategies build, each builder called on its own *)

\* options of the calls: two output formats, language absent or given
ResultOptions == [outputFormat : {"json", "markdown"}, language : {Undefined, "fi"}]

\* stdout that stops in the middle of the JSON text
OutTruncated == <<"{\"segments\":[">>

ResultStdouts == Stdouts \cup {OutTruncated, <<>>}

\* responses of the API that succeeded, with a detected language or none
ResultResponses ==
    { [ok |-> TRUE, text |-> TextOf(l, m, 0), language |-> lang, msg |-> <<>>] :
        l \in 0..MaxLetters, m \in 0..MaxMarks, lang \in {Undefined, "sv"} }

InitResults ==
    /\ InitServices
    /\ InitServer
    /\ \/ arg \in { [fn |-> "OnCloseSettlement", code |-> code, stdout |-> stdout,
                      stderr |-> stderr, options |-> o] :
                      code \in ExitCodes, stdout \in ResultStdouts,
                      stderr \in Stderrs, o \in ResultOptions }
       \/ arg \in { [fn |-> "OpenAIResult", response |-> response, options |-> o] :
                      response \in ResultResponses, o \in ResultOptions }
       \/ arg \in { [fn |-> "MockResult", options |-> o, r1 |-> r1, r2 |-> r2] :
                      o \in ResultOptions, r1 \in Randoms, r2 \in Randoms }
    /\ ret = NoRet
    /\ results = <<>>

\* the 'close' handler of the subprocess strategy settles its promise
CallOnCloseSettlement ==
    /\ arg.fn = "OnCloseSettlement"
    /\ ~ret.set
    /\ ret' = [set |-> TRUE,
               val |-> OnCloseSettlement(arg.code, arg.stdout, arg.stderr,
                                         Format(arg.options))]
    /\ UNCHANGED <<arg, results, serviceVars, serverVars>>

\* transcribeWithOpenAI returns after the API answered
CallOpenAIResult ==
    /\ arg.fn = "OpenAIResult"
    /\ ~ret.set
    /\ ret' = [set |-> TRUE,
               val |-> Returned(OpenAIResult(arg.response, OptLanguage(arg.options)))]
    /\ UNCHANGED <<arg, results, serviceVars, serverVars>>

\* the timer callback of getMockTranscription resolves (the buffer is not null)
CallMockResult ==
    /\ arg.fn = "MockResult"
    /\ ~ret.set
    /\ ret' = [set |-> TRUE, val |-> Returned(MockResult(arg.options, arg.r1, arg.r2))]
    /\ UNCHANGED <<arg, results, serviceVars, serverVars>>

NextResults ==
    \/ CallOnCloseSettlement
    \/ CallOpenAIResult
    \/ CallMockResult

SpecResults == InitResults /\ [][NextResults]_vars

----------------------------------------------------------------------------
(* The speaker helpers, called on their own *)

SpeakerLabels == {"", "Unknown", "A", "B"}

\* start and end of a segment
Spans == {[start |-> 0, end |-> 1], [start |-> 1, end |-> 3], [start |-> 2, end |-> 2]}

Segments ==
    { [speaker |-> l, start |-> sp.start, end |-> sp.end] : l \in SpeakerLabels, sp \in Spans }

\* the lists of at most n segments
SegmentLists(n) == UNION {[1..k -> Segments] : k \in 0..n}

InitSpeakers ==
    /\ InitServices
    /\ InitServer
    /\ arg \in { [fn |-> "extractSpeakerInfo",
                   result |-> [hasSegments |-> TRUE, segments |-> sg]] :
                  sg \in SegmentLists(MaxSegments) }
    /\ ret = NoRet
    /\ results = <<>>

CallExtractSpeakerInfo ==
    /\ arg.fn = "extractSpeakerInfo"
    /\ ~ret.set
    /\ ret' = [set |-> TRUE, val |-> extractSpeakerInfo(arg.result)]
    /\ UNCHANGED <<arg, results, serviceVars, serverVars>>

NextSpeakers == CallExtractSpeakerInfo

SpecSpeakers == InitSpeakers /\ [][NextSpeakers]_vars

\* result objects: segments missing or a short list, speakers there or not,
\* text and raw.markdown empty or not
FormatResults ==
    { [hasSegments |-> hs, segments |-> sg, hasSpeakers |-> hk, text |-> tx,
       rawMarkdown |-> md] :
        hs \in BOOLEAN, sg \in SegmentLists(MaxSegments - 1), hk \in BOOLEAN,
        tx \in {<<>>, <<"hej">>}, md \in {<<>>, <<"# T">>} }

DisplayFormats == {"text", "markdown", "speakers"}

InitFormat ==
    /\ InitServices
    /\ InitServer
    /\ \/ arg \in { [fn |-> "extractSpeakerInfo", result |-> r] :
                      r \in {q \in FormatResults : ~q.hasSegments => q.segments = <<>>} }
       \/ arg \in { [fn |-> "formatTranscriptionResult", result |-> r, format |-> f] :
                      r \in {q \in FormatResults : ~q.hasSegments => q.segments = <<>>},
                      f \in DisplayFormats }
    /\ ret = NoRet
    /\ results = <<>>

CallFormatTranscriptionResult ==
    /\ arg.fn = "formatTranscriptionResult"
    /\ ~ret.set
    /\ ret' = [set |-> TRUE, val |-> formatTranscriptionResult(arg.result, arg.format)]
    /\ UNCHANGED <<arg, results, serviceVars, serverVars>>

NextFormat ==
    \/ CallExtractSpeakerInfo
    \/ CallFormatTranscriptionResult

SpecFormat == InitFormat /\ [][NextFormat]_vars

----------------------------------------------------------------------------
(* The socket server (src/unnamed/part_003) *)

\* `temp_audio_${Date.now()}.wav`, in the working directory of the server
ServerTempPath(t) == [dir |-> ".", t |-> t, r |-> ""]

\* socket.emit(event, ...)
Emit(s, event) == emitted' = [emitted EXCEPT ![s] = Append(@, event)]

\* the number of events of a kind among those emitted to a socket
Emitted(s, event) ==
    Cardinality({i \in 1..Len(emitted[s]) : emitted[s][i] = event})

\* socket.on('start-recording')
StartRecording(s) ==
    /\ Emitted(s, "recording-status") < MaxEvents
    /\ Emit(s, "recording-status")
    /\ UNCHANGED <<received, handlers, clientVars, audioVars, fnVars, serviceVars>>

\* socket.on('stop-recording'): processAudioForTranscription down to its
\* await.  valid: audioData.audioBlob is a string; wok: fs.writeFileSync
\* succeeds.  Buffer.from and writeFileSync throw into the catch block.
StopRecording(s, valid, wok) ==
    /\ received[s] < MaxEvents
    /\ received' = [received EXCEPT ![s] = @ + 1]
    /\ IF valid /\ wok
       THEN /\ files' = files \cup {ServerTempPath(now)}
            /\ handlers' = Append(handlers, [socket |-> s, file |-> ServerTempPath(now)])
            /\ UNCHANGED emitted
       ELSE /\ Emit(s, "transcription-error")
            /\ UNCHANGED <<files, handlers>>
    /\ UNCHANGED <<clientVars, audioVars, fnVars, configVars, now, started, callVars,
                   probeVars>>

\* the continuation of `await transcribeAudio(audioBuffer)`, the placeholder
\* that resolves with a string: emit the result, then fs.unlinkSync, which
\* throws into the catch block when the file is gone or cannot be removed
AfterTranscribe(uok) ==
    /\ handlers # <<>>
    /\ LET h == Head(handlers) IN
       /\ handlers' = Tail(handlers)
       /\ IF h.file \in files /\ uok
          THEN /\ files' = files \ {h.file}
               /\ Emit(h.socket, "transcription-result")
          ELSE /\ emitted' = [emitted EXCEPT
                                ![h.socket] = @ \o <<"transcription-result",
                                                     "transcription-error">>]
               /\ UNCHANGED files
    /\ UNCHANGED <<received, clientVars, audioVars, fnVars, configVars, now, started,
                   callVars, probeVars>>

NextServer ==
    \/ \E s \in Sockets : StartRecording(s)
    \/ \E s \in Sockets, valid \in BOOLEAN, wok \in BOOLEAN : StopRecording(s, valid, wok)
    \/ \E uok \in BOOLEAN : AfterTranscribe(uok)
    \/ Tick

SpecServer == Init /\ [][NextServer]_vars

----------------------------------------------------------------------------
(* TranscriptionService.transcribeBatch: one call, of a list of at most as
   many buffers as there are call slots; the transcribeAudio call of the i-th
   buffer runs in the i-th slot.  The batch asks for 'json', and a child that
   runs writes the segments and nothing on stderr. *)

\* the lists of buffers (their lengths) a batch is called with
BatchBuffers == UNION {[1..n -> 0..MaxBufLen] : n \in 0..Cardinality(Slots)}

BatchSlot(i) == IF i = 1 THEN "c1" ELSE "c2"

\* { success: true, result } or { success: false, error: error.message }
BatchEntry(v) ==
    IF v.kind = "result"
    THEN [success |-> TRUE, result |-> v.res, error |-> <<>>]
    ELSE [success |-> FALSE, result |-> NoResult, error |-> v.msg]

InitBatch ==
    /\ InitServices
    /\ InitServer
    /\ arg \in { [fn |-> "transcribeBatch", audioBuffers |-> b, options |-> o] :
                   b \in BatchBuffers, o \in ConcOptions }
    /\ ret = NoRet
    /\ results = <<>>

\* transcribeBatch(audioBuffers, options) down to its first await, or to its
\* return when the list is empty
transcribeBatch ==
    /\ ~ret.set
    /\ results = <<>>
    /\ pc[BatchSlot(1)] = "idle"
    /\ IF arg.audioBuffers = <<>>
       THEN /\ ret' = [set |-> TRUE, val |-> results]
            /\ UNCHANGED <<arg, results, serviceVars, serverVars>>
       ELSE /\ transcribeAudioCall(BatchSlot(1), arg.options, arg.audioBuffers[1])
            /\ UNCHANGED fnVars

\* a loop that ends at the first buffer whose transcription failed
BatchContinue_StopsOnFailure ==
    LET i == Len(results) + 1 IN
    /\ ~ret.set
    /\ i <= Len(arg.audioBuffers)
    /\ pc[BatchSlot(i)] = "done"
    /\ results' = Append(results, BatchEntry(outcome[BatchSlot(i)]))
    /\ IF i < Len(arg.audioBuffers) /\ outcome[BatchSlot(i)].kind = "result"
       THEN /\ transcribeAudioCall(BatchSlot(i + 1), arg.options, arg.audioBuffers[i + 1])
            /\ UNCHANGED <<arg, ret>>
       ELSE /\ ret' = [set |-> TRUE, val |-> results']
            /\ UNCHANGED <<arg, serviceVars, serverVars>>

\* the continuation of `await this.transcribeAudio(audioBuffer, options)` in
\* the loop: push the entry, then call transcribeAudio with the next buffer,
\* or return the list
BatchContinue ==
    LET i == Len(results) + 1 IN
    /\ ~ret.set
    /\ i <= Len(arg.audioBuffers)
    /\ pc[BatchSlot(i)] = "done"
    /\ results' = Append(results, BatchEntry(outcome[BatchSlot(i)]))
    /\ IF i < Len(arg.audioBuffers)
       THEN /\ transcribeAudioCall(BatchSlot(i + 1), arg.options, arg.audioBuffers[i + 1])
            /\ UNCHANGED <<arg, ret>>
       ELSE /\ ret' = [set |-> TRUE, val |-> results']
            /\ UNCHANGED <<arg, serviceVars, serverVars>>

NextBatch ==
    \/ transcribeBatch
    \/ BatchContinue
    \/ \E c \in Slots, ok \in BOOLEAN : saveAudioBufferDone(c, ok)
    \/ \E c \in Slots : PyOnError(c)
    \/ \E c \in Slots, ok \in BOOLEAN : PyErrorUnlinkDone(c, ok)
    \/ \E c \in Slots, code \in ExitCodes : PyOnClose(c, code, OutSegments, <<>>)
    \/ \E c \in Slots : PyOnCloseAfterError(c)
    \/ \E c \in Slots, ok \in BOOLEAN : PyCloseUnlinkDone(c, ok)
    \/ \E c \in Slots, wok \in BOOLEAN : AfterPython(c, wok)
    \/ \E c \in Slots, response \in ApiOutcomes, uok \in BOOLEAN :
          AfterOpenAI(c, response, uok)

SpecBatch == InitBatch /\ [][NextBatch]_vars

----------------------------------------------------------------------------
(* The browser client (src/transcriptionService.js, from line 266): clicks on
   the record and the stop button, and the callbacks they lead to *)

\* what the rest of startRecording can do once it is resumed: getUserMedia
\* rejected, new MediaRecorder threw, mediaRecorder.start threw, or none of these
StartOutcomes == {"denied", "constructorThrows", "startThrows", "started"}

\* every click on the record button constructs at most one MediaRecorder
RecorderIds == 1..MaxClicks

\* the server and the services are not part of a step of the client
ClientFrame == UNCHANGED <<received, emitted, handlers, audioVars, fnVars, serviceVars>>

\* a click on the record button, which a disabled button does not deliver:
\* startRecording down to its await
ClickRecord ==
    /\ ~recordBtn
    /\ clicks < MaxClicks
    /\ clicks' = clicks + 1
    /\ requests' = IF isRecording THEN requests ELSE requests + 1
    /\ UNCHANGED <<isRecording, mediaRecorder, audioChunks, timerInterval, recordBtn,
                   stopBtn, recorders, intervals, timers, sent>>
    /\ ClientFrame

\* updateRecordingUI(recording)
updateRecordingUI(recording) ==
    /\ recordBtn' = recording
    /\ stopBtn' = ~recording

\* startTimer()
startTimer ==
    /\ timers' = timers + 1
    /\ timerInterval' = timers + 1
    /\ intervals' = intervals \cup {timers + 1}

\* stopTimer()
stopTimer ==
    /\ timerInterval' = 0
    /\ intervals' = intervals \ {timerInterval}
    /\ UNCHANGED timers

\* the continuation of `await navigator.mediaDevices.getUserMedia(...)` in
\* startRecording, to the end of the function or of its catch block
StartRecordingResumes(how) ==
    /\ requests > 0
    /\ requests' = requests - 1
    /\ IF how = "denied"
       THEN UNCHANGED <<isRecording, audioChunks, recorders, mediaRecorder, recordBtn,
                        stopBtn, timerInterval, intervals, timers>>
       ELSE /\ isRecording' = TRUE
            /\ audioChunks' = <<>>
            /\ IF how = "constructorThrows"
               THEN UNCHANGED <<recorders, mediaRecorder, recordBtn, stopBtn,
                                timerInterval, intervals, timers>>
               ELSE /\ mediaRecorder' = Len(recorders) + 1
                    /\ IF how = "startThrows"
                       THEN /\ recorders' = Append(recorders, "inactive")
                            /\ UNCHANGED <<recordBtn, stopBtn, timerInterval,
                                           intervals, timers>>
                       ELSE /\ recorders' = Append(recorders, "recording")
                            /\ updateRecordingUI(TRUE)
                            /\ startTimer
    /\ UNCHANGED <<clicks, sent>>
    /\ ClientFrame

\* mediaRecorder.ondataavailable of a recorder that records, or that was
\* stopped and has its last chunk to give: the chunk goes to the array that
\* audioChunks names now
DataAvailable(r) ==
    /\ r <= Len(recorders)
    /\ recorders[r] \in {"recording", "stopping"}
    /\ Len(audioChunks) < MaxChunks
    /\ audioChunks' = Append(audioChunks, r)
    /\ UNCHANGED <<isRecording, mediaRecorder, timerInterval, recordBtn, stopBtn,
                   clicks, requests, recorders, intervals, timers, sent>>
    /\ ClientFrame

\* a click on the stop button, which a disabled button does not deliver:
\* stopRecording.  mediaRecorder.stop() of a recorder that is inactive throws
\* InvalidStateError, which ends the handler.
ClickStop ==
    /\ ~stopBtn
    /\ IF ~isRecording \/ mediaRecorder = 0
       THEN UNCHANGED <<isRecording, recorders, recordBtn, stopBtn, timerInterval,
                        intervals, timers>>
       ELSE /\ isRecording' = FALSE
            /\ IF recorders[mediaRecorder] # "recording"
               THEN UNCHANGED <<recorders, recordBtn, stopBtn, timerInterval,
                                intervals, timers>>
               ELSE /\ recorders' = [recorders EXCEPT ![mediaRecorder] = "stopping"]
                    /\ updateRecordingUI(FALSE)
                    /\ stopTimer
    /\ UNCHANGED <<mediaRecorder, audioChunks, clicks, requests, sent>>
    /\ ClientFrame

\* mediaRecorder.onstop of a recorder that was stopped: the blob of
\* audioChunks is made, which sendAudioForTranscription sends in the
\* 'stop-recording' message once the FileReader has read it
OnStop(r) ==
    /\ r <= Len(recorders)
    /\ recorders[r] = "stopping"
    /\ recorders' = [recorders EXCEPT ![r] = "inactive"]
    /\ sent' = Append(sent, [recorder |-> r, audio |-> audioChunks])
    /\ UNCHANGED <<isRecording, mediaRecorder, audioChunks, timerInterval, recordBtn,
                   stopBtn, clicks, requests, intervals, timers>>
    /\ ClientFrame

NextClient ==
    \/ ClickRecord
    \/ \E how \in StartOutcomes : StartRecordingResumes(how)
    \/ \E r \in RecorderIds : DataAvailable(r)
    \/ ClickStop
    \/ \E r \in RecorderIds : OnStop(r)

SpecClient == Init /\ [][NextClient]_vars

----------------------------------------------------------------------------
(* AudioService (src/audioService.js): the synchronous functions of the
   singleton, called one after another *)

\* path.join(this.tempDir, `audio_${timestamp}.webm`)
AudioTempPath(t) == [dir |-> "temp", t |-> t, r |-> ".webm"]

\* the files of this.tempDir
TempFiles == {f \in files : f.dir = "temp"}

MkdirErrorMessage == <<"EACCES: permission denied, mkdir">>

BlobErrorMessage == <<"The first argument must be of type string">>

\* the rest of the state is not part of a call of the audio service
AudioFrame ==
    UNCHANGED <<results, received, emitted, handlers, clientVars, configVars, now,
                started, callVars, probeVars>>

\* processAudioData(audioData).  valid: audioData.audioBlob is a string;
\* mok: fs.mkdirSync succeeds; wok: fs.writeFileSync succeeds.
processAudioData(valid, mok, wok) ==
    /\ arg' = [fn |-> "processAudioData", valid |-> valid, mok |-> mok, wok |-> wok]
    /\ IF ~valid
       THEN /\ ret' = [set |-> TRUE,
                       val |-> [success |-> FALSE, filepath |-> NoPath,
                                error |-> BlobErrorMessage]]
            /\ UNCHANGED <<files, tempDirExists>>
       ELSE IF ~tempDirExists /\ ~mok
       THEN /\ ret' = [set |-> TRUE,
                       val |-> [success |-> FALSE, filepath |-> NoPath,
                                error |-> MkdirErrorMessage]]
            /\ UNCHANGED <<files, tempDirExists>>
       ELSE /\ tempDirExists' = TRUE
            /\ IF wok
               THEN /\ files' = files \cup {AudioTempPath(now)}
                    /\ ret' = [set |-> TRUE,
                               val |-> [success |-> TRUE,
                                        filepath |-> AudioTempPath(now),
                                        error |-> <<>>]]
               ELSE /\ ret' = [set |-> TRUE,
                               val |-> [success |-> FALSE, filepath |-> NoPath,
                                        error |-> WriteErrorMessage]]
                    /\ UNCHANGED files
    /\ AudioFrame

\* a cleanup that ends at a deletion that fails
cleanup_StopsAtFailure(failing) ==
    /\ failing \subseteq TempFiles
    /\ arg' = [fn |-> "cleanup", failing |-> failing]
    /\ ret' = [set |-> TRUE, val |-> [success |-> TRUE, filepath |-> NoPath, error |-> <<>>]]
    /\ files' = IF failing = {} THEN files \ TempFiles ELSE files
    /\ UNCHANGED tempDirExists
    /\ AudioFrame

\* cleanup(); failing: the files whose fs.unlinkSync throws
cleanup(failing) ==
    /\ failing \subseteq TempFiles
    /\ arg' = [fn |-> "cleanup", failing |-> failing]
    /\ ret' = [set |-> TRUE, val |-> [success |-> TRUE, filepath |-> NoPath, error |-> <<>>]]
    /\ files' = (files \ TempFiles) \cup failing
    /\ UNCHANGED tempDirExists
    /\ AudioFrame

\* getTempFiles(): the entries of the directory
getTempFiles ==
    /\ arg' = [fn |-> "getTempFiles", before |-> arg.fn]
    /\ ret' = [set |-> TRUE, list |-> IF tempDirExists THEN TempFiles ELSE {}]
    /\ UNCHANGED <<files, tempDirExists>>
    /\ AudioFrame

NextAudio ==
    \/ \E valid \in BOOLEAN, mok \in BOOLEAN, wok \in BOOLEAN :
          processAudioData(valid, mok, wok)
    \/ \E failing \in SUBSET TempFiles : cleanup(failing)
    \/ getTempFiles
    \/ Tick

SpecAudio == Init /\ [][NextAudio]_vars

----------------------------------------------------------------------------
(* Claims *)

Done(c) == pc[c] = "done"

\* the child of call c ran and exited with this code and this stderr
ChildExited(c, code, stderr) ==
    /\ pyPc[c] = "closed"
    /\ closeArgs[c].code = code
    /\ closeArgs[c].stderr = stderr

Boom == <<"boom">>

\* C1: when transcribeAudio has returned or thrown, no temp file the call
\* wrote is left in either temp directory, whatever the strategies did
\* (subprocess success, non-zero exit, spawn failure, parse failure, remote
\* success, remote failure).  Calls whose unlink itself failed, and calls
\* whose spawn threw before a child existed, are set aside.
C1_NoTempFileLeft ==
    \A c \in Slots :
        (Done(c) /\ pySpawned[c] /\ ~unlinkFailed[c]) =>
            (pyPath[c] \notin files /\ oaPath[c] \notin files)

\* C2: when a call that ran the remote strategy has ended, by a result or by
\* the error of the remote API, the temp file of the remote strategy is gone
\* (calls whose unlink itself failed set aside).
C2_RemoteTempFileRemoved ==
    \A c \in Slots :
        (Done(c) /\ oaInvoked[c] > 0 /\ ~unlinkFailed[c]) => oaPath[c] \notin files

C4_FallbackTaggedRemote ==
    \A c \in Slots :
        (Done(c) /\ ChildExited(c, 1, Boom) /\ useOpenAI /\ outcome[c].kind = "result")
            => (/\ outcome[c].res.producer = "openai"
                /\ outcome[c].res.pipeline \notin {Undefined, PyPipeline})

\* C5: when the child exited with code 1 and stderr "boom" and no remote
\* fallback is configured, transcribeAudio throws, and the message of the
\* error contains "boom".
C5_BoomSurfaces ==
    \A c \in Slots :
        (Done(c) /\ ChildExited(c, 1, Boom) /\ ~useOpenAI)
            => (outcome[c].kind = "error" /\ Includes(outcome[c].msg, "boom"))

\* C5 witness: such a call has ended
C5_Witness ==
    \E c \in Slots :
        /\ Done(c)
        /\ ChildExited(c, 1, Boom)
        /\ ~useOpenAI
        /\ outcome[c].msg = <<"Transcription failed:", "Python script failed with code",
                              "1", ":", "boom">>

\* C6: every result transcribeAudio returns has its pipeline tag set, and the
\* tag is the one of the subprocess strategy exactly when that strategy built
\* the result.
C6_PipelineTagSet ==
    \A c \in Slots :
        (Done(c) /\ outcome[c].kind = "result")
            => (/\ outcome[c].res.pipeline # Undefined
                /\ (outcome[c].res.pipeline = PyPipeline
                        <=> outcome[c].res.producer = "python"))

\* C7: with no backend configured (python3 cannot be started, no API key), a
\* call whose subprocess was tried ends with a synthesized mock result, not
\* with an error.
C7_MockModeReturnsMock ==
    \A c \in Slots :
        (Done(c) /\ pySpawned[c] /\ ~pythonPresent /\ ~useOpenAI)
            => (outcome[c].kind = "result" /\ outcome[c].res.mock)

\* C8: every call in progress has invoked the subprocess strategy exactly
\* once; it has invoked the remote strategy at most once, and only with an API
\* key configured and after the subprocess strategy of the same call failed.
C8_SelectionOrder ==
    \A c \in Slots :
        /\ (pc[c] # "idle" => pyInvoked[c] = 1)
        /\ (pc[c] = "idle" => pyInvoked[c] = 0 /\ oaInvoked[c] = 0)
        /\ oaInvoked[c] <= 1
        /\ (oaInvoked[c] = 1 => (useOpenAI /\ pyValue[c].kind = "error"))
        /\ (pc[c] = "openai" => oaInvoked[c] = 1)

\* C8 witness: a later call, made after an earlier one ended, is in the remote
\* strategy
C8_Witness ==
    \E c \in Slots :
        /\ started >= 2
        /\ pc[c] = "openai"
        /\ pyInvoked[c] = 1
        /\ oaInvoked[c] = 1

\* C9: the subprocess strategy is invoked only where the capability probe can
\* report the backend available: the probe resolves false whenever python3
\* cannot be started.
C9_InvokedOnlyWhenAvailable ==
    \A c \in Slots : pyInvoked[c] > 0 => pythonPresent

\* C10: isAvailable only ever resolves; once the probe has failed to spawn or
\* has closed the answer is there, and it is true exactly when the probe
\* closed with code 0 and its stderr has no ModuleNotFoundError.
C10_ProbeNeverRejects ==
    /\ probeResult \in {"pending", "true", "false"}
    /\ (probePc \in {"errored", "closed"} => probeResult # "pending")
    /\ (probeSeen.how = "error" => probeResult = "false")
    /\ (probeResult = "true"
          <=> (/\ probeSeen.how = "close"
               /\ probeSeen.code = 0
               /\ \A i \in 1..Len(probeSeen.stderr) :
                      probeSeen.stderr[i] # "ModuleNotFoundError"))

\* C10 witness: the probe exited with code 0 and a ModuleNotFoundError on stderr
C10_Witness ==
    /\ probePc = "closed"
    /\ probeSeen.how = "close"
    /\ probeSeen.code = 0
    /\ Includes(probeSeen.stderr, "ModuleNotFoundError")
    /\ probeResult = "false"

\* C11: the capability probe has a timeout: while a call of isAvailable is
\* pending, a callback that resolves it is still to come, even when the probe
\* process never exits.
C11_ProbeTimesOut ==
    (probePc \in {"running", "hung"} /\ probeResult = "pending")
        => ENABLED ProbeCallback

\* the 'close' handler of call c has run to its end, and no 'error' event came
ClosedBy(c) ==
    /\ pyPc[c] = "closed"
    /\ closeH[c] = "done"
    /\ errH[c] = "none"

\* C12: when the child has exited with a non-zero code, the promise of the
\* subprocess strategy is rejected whatever stdout held, and the message of
\* the error has the exit code in it and ends with the whole captured stderr.
C12_NonZeroExitFails ==
    \A c \in Slots :
        (ClosedBy(c) /\ closeArgs[c].code # 0)
            => LET m == pyValue[c].msg
                   e == closeArgs[c].stderr
               IN  /\ pyValue[c].kind = "error"
                   /\ Includes(m, ToString(closeArgs[c].code))
                   /\ Len(m) >= Len(e)
                   /\ SubSeq(m, Len(m) - Len(e) + 1, Len(m)) = e

\* C12 witness: the child wrote valid structured output and "boom" on stderr,
\* exited with code 1, and the promise was rejected
C12_Witness ==
    \E c \in Slots :
        /\ ClosedBy(c)
        /\ closeArgs[c] = [code |-> 1, stdout |-> OutSegments, stderr |-> Boom]
        /\ Format(opts[c]) = "json"
        /\ pyValue[c].kind = "error"

C14_SpawnFailureFallsThrough ==
    \A c \in Slots :
        errH[c] # "none"
            => (/\ pyValue[c].kind # "pending" => pyValue[c] = Thrown(PySpawnMessage)
                /\ pyInvoked[c] = 1
                /\ (Done(c) /\ useOpenAI) => oaInvoked[c] = 1)

\* C15: a failed deletion of a temp file is only logged: a call of the
\* subprocess strategy whose unlink failed still resolves when the child
\* exited with code 0 and parseable output, and is still rejected with the
\* exit error when the code was not 0; a call of the remote strategy whose
\* unlink failed still returns the result when the API answered, and still
\* throws the error of the API when it did not.
C15_CleanupFailureOnlyLogged ==
    \A c \in Slots :
        unlinkFailed[c]
            => (/\ (ClosedBy(c) /\ closeArgs[c].code = 0 /\ closeArgs[c].stdout # OutGarbage)
                       => pyValue[c].kind = "result"
                /\ (ClosedBy(c) /\ closeArgs[c].code # 0)
                       => (pyValue[c].kind = "error" /\ Includes(pyValue[c].msg, ":"))
                /\ (Done(c) /\ apiSeen[c].how = "ok") => outcome[c].kind = "result"
                /\ (Done(c) /\ apiSeen[c].how = "failed")
                       => outcome[c] = Thrown(<<"Transcription failed:">> \o apiSeen[c].msg))

\* s ends with t
EndsWith(s, t) ==
    /\ Len(s) >= Len(t)
    /\ SubSeq(s, Len(s) - Len(t) + 1, Len(s)) = t

\* C17: when the request to the remote API failed, transcribeAudio throws (the
\* remote strategy is the last one tried), and the message of the error it
\* throws ends with the message of the error of the API.
C17_RemoteErrorSurfaces ==
    \A c \in Slots :
        (Done(c) /\ apiSeen[c].how = "failed")
            => (/\ outcome[c].kind = "error"
                /\ apiSeen[c].msg # <<>>
                /\ EndsWith(outcome[c].msg, apiSeen[c].msg))

\* C17 witness: the child had exited with code 1 and "boom", the request to
\* the API timed out, and transcribeAudio threw
C17_Witness ==
    \E c \in Slots :
        /\ Done(c)
        /\ ChildExited(c, 1, Boom)
        /\ apiSeen[c] = [how |-> "failed", msg |-> <<"Request timed out.">>]
        /\ outcome[c].kind = "error"

\* t is s without the whitespace at its two ends
IsTrimOf(s, t) ==
    /\ \E i \in 1..(Len(s) + 1), j \in 0..Len(s) :
          /\ t = SubSeq(s, i, j)
          /\ \A k \in 1..(i - 1) : s[k] \in {" ", "\n"}
          /\ \A k \in (j + 1)..Len(s) : s[k] \in {" ", "\n"}
    /\ t # <<>> => (t[1] \notin {" ", "\n"} /\ t[Len(t)] \notin {" ", "\n"})

\* C19: when the output format is "markdown" and the child has exited with
\* code 0, the promise of the subprocess strategy is resolved, whatever stdout
\* held, and the text of the result is stdout without the whitespace at its
\* two ends.
C19_MarkdownIsTrimmedStdout ==
    \A c \in Slots :
        (ClosedBy(c) /\ closeArgs[c].code = 0 /\ Format(opts[c]) = "markdown")
            => (/\ pyValue[c].kind = "result"
                /\ IsTrimOf(closeArgs[c].stdout, pyValue[c].res.text))

\* C19 witness: stdout was not structured data and began with a blank
C19_Witness ==
    \E c \in Slots :
        /\ ClosedBy(c)
        /\ closeArgs[c].code = 0
        /\ Format(opts[c]) = "markdown"
        /\ closeArgs[c].stdout = OutGarbage
        /\ pyValue[c].kind = "result"
        /\ pyValue[c].res.text = <<"Traceback">>

\* t is the words joined by single spaces, in their order
IsJoinOf(words, t) ==
    /\ Len(t) = IF words = <<>> THEN 0 ELSE 2 * Len(words) - 1
    /\ \A i \in 1..Len(words) : t[2 * i - 1] = words[i]
    /\ \A i \in 1..(Len(words) - 1) : t[2 * i] = " "

\* C18 as written: the text of a structured result is the markdown field of
\* the parsed output if that field is present, otherwise the word fields of
\* the segments joined by single spaces in array order, otherwise the empty
\* string.
C18_TextAsWritten ==
    ret.set =>
        LET p == arg.parsed IN
        IF p.hasMarkdown THEN ret.val = p.markdown
        ELSE IF p.hasSegments THEN IsJoinOf(p.segments, ret.val)
        ELSE ret.val = <<>>

\* C18: the text of a structured result is the markdown field of the parsed
\* output if that field is present and not empty, otherwise the word fields
\* of the segments joined by single spaces in array order if there are
\* segments, otherwise the empty string.
C18_TextOfStructuredResult ==
    ret.set =>
        LET p == arg.parsed IN
        IF p.hasMarkdown /\ p.markdown # <<>> THEN ret.val = p.markdown
        ELSE IF p.hasSegments THEN IsJoinOf(p.segments, ret.val)
        ELSE ret.val = <<>>

\* C18 witness: the markdown field is there and empty, and the text is the
\* two words of the segments
C18_Witness ==
    /\ ret.set
    /\ arg.parsed = [hasMarkdown |-> TRUE, markdown |-> <<>>,
                     hasSegments |-> TRUE, segments |-> <<"hej", "du">>]
    /\ ret.val = <<"hej", " ", "du">>

\* C20: calculateConfidence is 0 for the empty text and otherwise
\* min(0.5 + min(length / 100, 0.3) + min(marks * 0.1, 0.2), 1.0), scaled by
\* 1000, the marks being the characters . , ! ? ; of the text; a text of
\* length 200 with 3 marks gives 1.0.
C20_ConfidenceFormula ==
    ret.set =>
        LET len == arg.letters + arg.marks + arg.others
            bonusLen == IF len * 10 < 300 THEN len * 10 ELSE 300
            bonusMarks == IF arg.marks * 100 < 200 THEN arg.marks * 100 ELSE 200
        IN  /\ len = 0 => ret.val = 0
            /\ len > 0 => ret.val = 500 + bonusLen + bonusMarks
            /\ ret.val <= 1000
            /\ (len = 200 /\ arg.marks = 3) => ret.val = 1000

\* C20 witness: a text of length 200 with 3 punctuation marks
C20_Witness ==
    /\ ret.set
    /\ arg.letters = 197
    /\ arg.marks = 3
    /\ arg.others = 0
    /\ ret.val = 1000

\* call c has a temp file of the subprocess strategy in use
PyInFlight(c) == pyPath[c] # NoPath /\ ~PyQuiet(c)

\* call c has a temp file of the remote strategy in use
OaInFlight(c) == pc[c] = "openai"

\* C16: no two calls that are in flight at the same time use the same temp
\* file path, in the subprocess strategy (random suffixes taken as distinct)
\* and in the remote strategy.
C16_TempPathsDistinct ==
    \A c, d \in Slots :
        c # d =>
            /\ (PyInFlight(c) /\ PyInFlight(d)) => pyPath[c] # pyPath[d]
            /\ (OaInFlight(c) /\ OaInFlight(d)) => oaPath[c] # oaPath[d]

\* C21: the confidence of every result a strategy builds lies in [0, 1]
\* (scaled by 1000): the subprocess strategy gives 0.9, the remote strategy 0
\* or a value in [0.5, 1.0], the mock strategy a value in [0.7, 1.0).
C21_ConfidenceRanges ==
    (ret.set /\ ret.val.kind = "result") =>
        LET r == ret.val.res IN
        /\ r.confidence >= 0
        /\ r.confidence <= 1000
        /\ r.producer = "python" => r.confidence = 900
        /\ r.producer = "openai" => (r.confidence = 0 \/ r.confidence >= 500)
        /\ r.producer = "mock" => (r.confidence >= 700 /\ r.confidence < 1000)

\* C21 witness: a mock result built from the largest random number
C21_Witness ==
    /\ ret.set
    /\ arg.fn = "MockResult"
    /\ arg.r2 = 999
    /\ ret.val.res.producer = "mock"
    /\ ret.val.res.confidence = 999

\* C22: getMockTranscription never throws and never leaves its promise
\* unresolved, for a null buffer and a zero-length buffer too: no timer
\* callback throws, and a call that has ended has a result with a confidence
\* in [0.7, 1.0).
C22_MockNeverThrows ==
    \A c \in Slots :
        /\ pc[c] # "crashed"
        /\ pc[c] = "done" => (/\ outcome[c].kind = "result"
                              /\ outcome[c].res.confidence >= 700
                              /\ outcome[c].res.confidence < 1000)

\* C29: a mock call that has started and has not resolved has its timer still
\* to fire, whatever the other calls do, a call can start while another is
\* suspended in its delay, and the text of a call that has resolved is one of
\* the five canned texts.
C29_MockDelayDoesNotBlock ==
    \A c \in Slots :
        /\ pc[c] \notin {"idle", "done"} => ENABLED MockTimerOf(c)
        /\ (pc[c] = "idle" /\ started < MaxStarts)
              => ENABLED (\E o \in MockOptions, n \in MockBuffers : CallMock(c, o, n))
        /\ pc[c] = "done"
              => \E i \in 1..5 : outcome[c].res.text = mockResponses[i]

\* the positions of the segments with this speaker label
PositionsOf(segs, label) == {k \in 1..Len(segs) : segs[k].speaker = label}

C24_HelpersNeverThrow ==
    ret.set =>
        LET r == arg.result
            empty == r.segments = <<>> /\ r.text = <<>> /\ r.rawMarkdown = <<>>
        IN  /\ arg.fn = "extractSpeakerInfo"
                  => (empty => (ret.val.speakers = <<>> /\ ret.val.speakerCount = 0))
            /\ arg.fn = "formatTranscriptionResult"
                  => (/\ ~ret.val.threw
                      /\ empty => ret.val.val = <<>>)

\* the probe of the accessor found the subprocess backend available
SubprocessAvailable ==
    /\ probeSeen.how = "close"
    /\ probeSeen.code = 0
    /\ ~Includes(probeSeen.stderr, "ModuleNotFoundError")

C26_ParseFailureReported ==
    ( /\ ret.set
      /\ arg.fn = "OnCloseSettlement"
      /\ arg.code = 0
      /\ Format(arg.options) # "markdown"
      /\ ~JSONparse(arg.stdout).ok )
    => /\ ret.val.kind = "error"
       /\ ret.val.msg[1] # "Python script failed with code"
       /\ \E i \in 1..Len(ret.val.msg) :
              SubSeq(ret.val.msg, i, Len(ret.val.msg)) = JSONparse(arg.stdout).err
       /\ arg.stdout # <<>> => Includes(ret.val.msg, arg.stdout[1])

\* C27: for every strategy, a call with options.language = L whose backend
\* detects no language returns a result with language L.
C27_RequestedLanguage ==
    ( /\ ret.set
      /\ ret.val.kind = "result"
      /\ arg.options.language # Undefined
      /\ arg.fn = "OpenAIResult" => arg.response.language = Undefined )
    => ret.val.res.language = arg.options.language


\* C28: no call of transcribeAudio, whatever its outcome, changes the service
\* configuration: no step changes preferredService, useOpenAI, the script
\* path, the temp directory path or the token, so the strategy a later call
\* selects does not depend on earlier calls.
C28_ConfigurationReadOnly ==
    [][UNCHANGED <<preferredService, useOpenAI, pythonScript, tempDir, hfToken>>]_vars

\* C28 witness: a later call, made after an earlier one ended, has ended in
\* an error
C28_Witness ==
    \E c \in Slots :
        /\ started >= 2
        /\ pc[c] = "done"
        /\ outcome[c].kind = "error"
        /\ preferredService = "python"


\* the processAudioForTranscription calls of a socket that wait at their await
Waiting(s) == {i \in 1..Len(handlers) : handlers[i].socket = s}

\* C30: for every 'stop-recording' event a client sends, the server emits to
\* that socket exactly one of 'transcription-result' and
\* 'transcription-error', and the temporary file the handler wrote no longer
\* exists once the response has been handled: the responses emitted to a
\* socket are as many as its events whose handler has ended, and every
\* temporary file that exists belongs to a handler that has not ended.
C30_OneResponsePerEvent ==
    /\ \A s \in Sockets :
           Emitted(s, "transcription-result") + Emitted(s, "transcription-error")
               = received[s] - Cardinality(Waiting(s))
    /\ \A f \in files :
           f.dir = "." => \E i \in 1..Len(handlers) : handlers[i].file = f


\* C31: the promise of PythonTranscriptionService.transcribeAudio settles
\* once, and only after the child has closed or failed to start; when both
\* the 'error' and the 'close' event fire for a child, the first settlement
\* stands, and the handler that ends later changes neither the outcome nor
\* any file other than the temp file of its call.
C31_SettlesOnce ==
    [][\A c \in Slots :
          /\ (pyValue[c].kind # "pending" /\ pc'[c] # "idle")
                 => pyValue'[c] = pyValue[c]
          /\ (pyValue'[c].kind # "pending" /\ pySpawned'[c])
                 => pyPc'[c] \in {"errored", "closed"}
          /\ (errH'[c] # errH[c] \/ closeH'[c] # closeH[c])
                 => /\ files' \in {files, files \ {pyPath[c]}}
                    /\ outcome' = outcome]_vars

\* C31 witness: both handlers of a child that failed to start have ended, the
\* 'close' handler first, while the temp file of another call exists
C31_Witness ==
    \E c, d \in Slots :
        /\ c # d
        /\ errH[c] = "done"
        /\ closeH[c] = "done"
        /\ pyValue[c] = OnCloseSettlement(EnoentCode, <<>>, <<>>, Format(opts[c]))
        /\ pyPath[d] \in files


\* C32: when writing the audio buffer to the temp file fails, the subprocess
\* strategy rejects with a 'Failed to save audio buffer' error and spawns no
\* child; when spawn throws synchronously after the file was written, the
\* call rejects and the temp file is removed.
C32_SaveAndSpawnFailures ==
    \A c \in Slots :
        pyPc[c] = "failed" =>
            /\ pyValue[c].kind = "error"
            /\ ~pySpawned[c]
            /\ IF pyValue[c] = Thrown(SpawnThrowMessage)
               THEN pyPath[c] \notin files
               ELSE pyValue[c].msg[1] = "Failed to save audio buffer:"


\* the transcribeAudio calls of the batch that are in flight
BatchInFlight == {c \in Slots : pc[c] \notin {"idle", "done"}}

\* C33: transcribeBatch returns a list with one entry per input buffer, in
\* input order, each entry {success: true, result} or {success: false,
\* error}; a failed buffer does not stop the following ones, and at most one
\* transcription of the batch is in flight at any time.
C33_BatchOneEntryPerBuffer ==
    /\ Cardinality(BatchInFlight) <= 1
    /\ Len(results) <= Len(arg.audioBuffers)
    /\ \A i \in 1..Len(results) :
           LET v == outcome[BatchSlot(i)] IN
           /\ pc[BatchSlot(i)] = "done"
           /\ results[i].success = (v.kind = "result")
           /\ results[i].success => results[i].result = v.res
           /\ ~results[i].success => results[i].error = v.msg
    /\ ret.set => /\ ret.val = results
                  /\ Len(ret.val) = Len(arg.audioBuffers)

\* C33 witness: a batch of two buffers has returned, the first buffer failed
\* and the second succeeded
C33_Witness ==
    /\ ret.set
    /\ Len(ret.val) = 2
    /\ ~ret.val[1].success
    /\ ret.val[2].success


\* the recorders that record
Recording == {r \in 1..Len(recorders) : recorders[r] = "recording"}

\* C34: in the browser client, after any sequence of clicks on the record and
\* the stop button, at most one MediaRecorder and at most one timer interval
\* are active, every recorder that records is the one a stop click stops, and
\* every recorder has sent at most one 'stop-recording' message, with chunks
\* of its own recording only.
C34_OneRecorderOneTimer ==
    /\ Cardinality(Recording) <= 1
    /\ Cardinality(intervals) <= 1
    /\ \A r \in Recording : isRecording /\ mediaRecorder = r /\ ~stopBtn
    /\ \A i, j \in 1..Len(sent) : sent[i].recorder = sent[j].recorder => i = j
    /\ \A i \in 1..Len(sent) :
           \A k \in 1..Len(sent[i].audio) : sent[i].audio[k] = sent[i].recorder

\* C35: in the browser client, a failed startRecording leaves the recording
\* state unchanged, and in every state the record button is disabled exactly
\* when isRecording is true and the stop button exactly when it is false.
C35_ButtonsFollowIsRecording ==
    /\ recordBtn = isRecording
    /\ stopBtn = ~isRecording
    /\ isRecording => Recording # {}


\* C36: processAudioData returns {success: true, audioInfo} after the buffer
\* has been written to the temp directory, or {success: false, error}
\* otherwise; cleanup deletes every file of the temp directory but those whose
\* deletion fails, and getTempFiles, called after a cleanup in which no
\* deletion failed, returns an empty list.
C36_AudioServiceFunctions ==
    /\ arg.fn = "processAudioData" =>
           IF arg.valid /\ arg.wok /\ tempDirExists
           THEN /\ ret.val.success
                /\ ret.val.filepath \in TempFiles
           ELSE /\ ~ret.val.success
                /\ ret.val.error # <<>>
    /\ arg.fn = "cleanup" => TempFiles = arg.failing
    /\ (arg.fn = "getTempFiles" /\ arg.before = "cleanup" /\ TempFiles = {})
           => ret.list = {}
    /\ arg.fn = "getTempFiles" => ret.list = TempFiles

\* C36 witness: a cleanup has deleted one of two files, the deletion of the
\* other one failed
C36_Witness ==
    /\ arg.fn = "cleanup"
    /\ Cardinality(arg.failing) = 1
    /\ Cardinality(TempFiles) = 1
    /\ tempDirExists
    /\ now = MaxTime

====
